---- MODULE Spec2Model ----
(***************************************************************************)
(* The multi-source orchestration graph of langgraph_mcp_bot.py: the       *)
(* module registry, the issue-tracker configuration, the request state     *)
(* (a Python dict), the seven graph nodes and the edges between them.      *)
(*                                                                         *)
(* A Python dict is a TLA+ function whose DOMAIN is its set of keys.       *)
(* Python's None is the string None below; text values are TLA+ strings.   *)
(***************************************************************************)
EXTENDS Integers, Sequences, FiniteSets, TLC

VARIABLES
    modules,      \* module_manager.modules: name -> enabled flag
    env,          \* the JIRA_* variables of .env / os.environ
    jira_config,  \* the JiraConfig singleton: url, username, api_token, project_key
    pc,           \* the node the graph runs next ("idle", "done", "crashed" outside a run)
    state,        \* the ChatState dict of the request in flight
    executed,     \* the nodes run so far in this request, in order
    calls,        \* per adapter, how often its invoke was called in this request
    returned,     \* the adapters whose invoke returned normally in this request
    error,        \* the exception that escaped the graph, None if none
    touched,      \* the modules whose flag changed since this request started
    gated,        \* the sources whose own node ran while disabled or unconfigured
    sources,      \* final_answer_node's local list `sources`, tagged by source
    files,        \* the output records written by final_answer_node in this request
    jqlProject,   \* the project key JIRATool.invoke put in its JQL, None if none
    request,      \* the dict the caller passed to app.invoke
    gen_kwargs,   \* the arguments of the generator call test_case_node made in
                  \* this request, as a sequence of at most one record
    tool_response, \* the text the RAG, SQL or web search tool last returned to
                  \* its node in this request, None if none
    \* main.py, the SearchOrchestrator and its ModuleManager
    mm,           \* ModuleManager.modules: name -> [enabled, output_file]
    now,          \* datetime.now(), in seconds
    web_search,   \* SearchOrchestrator.web_search is a tool (FALSE: it is None)
    queried,      \* the modules the last search() queried, in order
    written,      \* the output records the last search() appended, in order
    search_error, \* the exception that escaped the last search(), None if none
    files_since   \* per module, the files written to since it was last disabled

graphVars == <<modules, env, jira_config, pc, state, executed, calls, returned,
          error, touched, gated, sources, files, jqlProject, request,
          gen_kwargs, tool_response>>

orchVars == <<mm, now, web_search, queried, written, search_error, files_since>>

vars == <<graphVars, orchVars>>

None == "<None>"

ModuleNames == {"rag", "sql", "search", "jira"}

Adapters == {"rag", "sql", "search", "jira", "gen"}

Sentinel == "No relevant information found from enabled modules."

----------------------------------------------------------------------------
(* Python string helpers *)

IsSpace(c) == c \in {" ", "\n", "\t"}

RECURSIVE LStrip(_)
LStrip(s) ==
    IF Len(s) > 0 /\ IsSpace(SubSeq(s, 1, 1))
    THEN LStrip(SubSeq(s, 2, Len(s)))
    ELSE s

RECURSIVE RStrip(_)
RStrip(s) ==
    IF Len(s) > 0 /\ IsSpace(SubSeq(s, Len(s), Len(s)))
    THEN RStrip(SubSeq(s, 1, Len(s) - 1))
    ELSE s

\* str.strip()
Strip(s) == RStrip(LStrip(s))

UpperChars == "ABCDEFGHIJKLMNOPQRSTUVWXYZ"
LowerChars == "abcdefghijklmnopqrstuvwxyz"

LowerChar(c) ==
    IF \E i \in 1..Len(UpperChars) : SubSeq(UpperChars, i, i) = c
    THEN LET i == CHOOSE j \in 1..Len(UpperChars) : SubSeq(UpperChars, j, j) = c
         IN  SubSeq(LowerChars, i, i)
    ELSE c

\* str.lower()
RECURSIVE Lower(_)
Lower(s) ==
    IF Len(s) = 0 THEN ""
    ELSE LowerChar(SubSeq(s, 1, 1)) \o Lower(SubSeq(s, 2, Len(s)))

\* sub in s
Contains(s, sub) ==
    \E i \in 1..(Len(s) - Len(sub) + 1) : SubSeq(s, i, i + Len(sub) - 1) = sub

\* sep.join(lines)
RECURSIVE Join(_, _)
Join(lines, sep) ==
    IF Len(lines) = 0 THEN ""
    ELSE IF Len(lines) = 1 THEN lines[1]
    ELSE lines[1] \o sep \o Join(Tail(lines), sep)

\* bool(v) of a text or None
Truthy(v) == v # None /\ v # ""

----------------------------------------------------------------------------
(* dict helpers *)

\* d.get(k)
Get(d, k) == IF k \in DOMAIN d THEN d[k] ELSE None

\* d[k] = v
Set(d, k, v) == (k :> v) @@ d

\* if k not in d: d[k] = v
SetDefault(d, k, v) == IF k \in DOMAIN d THEN d ELSE Set(d, k, v)

Range(f) == {f[i] : i \in DOMAIN f}

----------------------------------------------------------------------------
(* Module registry: enable / disable / is_enabled *)

is_enabled(name) == IF name \in DOMAIN modules THEN modules[name] ELSE FALSE

enable_module(reg, name) ==
    IF name \in DOMAIN reg THEN [reg EXCEPT ![name] = TRUE] ELSE reg

\* a disable that stores the flag of enable
disable_module_sets_true(reg, name) ==
    IF name \in DOMAIN reg THEN [reg EXCEPT ![name] = TRUE] ELSE reg

disable_module(reg, name) ==
    IF name \in DOMAIN reg THEN [reg EXCEPT ![name] = FALSE] ELSE reg

----------------------------------------------------------------------------
(* Issue-tracker configuration, tools/jira_tool.py *)

EmptyConfig == [url |-> "", username |-> "", api_token |-> "", project_key |-> ""]
FullConfig  == [url |-> "https://jira", username |-> "user",
                api_token |-> "tok", project_key |-> "PROJ"]

\* the .env contents the configuration form can save
EnvChoices ==
    { FullConfig,
      [FullConfig EXCEPT !.api_token = ""],
      [FullConfig EXCEPT !.project_key = ""],
      EmptyConfig }

\* JiraConfig.reload_config: the attributes are overwritten from the environment
reload_config(cfg, e) == e

\* JiraConfig.is_configured: the configuration after the call, and its result
is_configured(cfg, e) ==
    LET c == reload_config(cfg, e)
    IN  [cfg |-> c,
         ok  |-> /\ Truthy(c.url)
                 /\ Truthy(c.username)
                 /\ Truthy(c.api_token)
                 /\ Truthy(c.project_key)]

\* JiraConfig.set_project_key
set_project_key(cfg, key) == [cfg EXCEPT !.project_key = key]

----------------------------------------------------------------------------
(* Tools *)

\* what one call of get_tools() can construct: the set of constructors that
\* succeed (index loaded, credentials present, OPENAI_API_KEY set, ...).
\* A failed constructor of rag, sql or search still adds an entry to the list,
\* so a node's result depends only on the constructors of its own tools: each
\* node below draws the subset of those.
ToolKinds == {"rag", "sql", "search", "jira", "gen"}

\* tools/jira_tool.py get_jira_tools: [] if JIRATool() fails, else the JIRA
\* tool, followed by the test case generator when it could be created
get_jira_tools(avail) ==
    IF "jira" \notin avail THEN <<>>
    ELSE <<"is_jira_tool">> \o
         (IF "gen" \in avail THEN <<"is_test_case_generator">> ELSE <<>>)

\* get_tools: one entry per enabled module, named by the marker attribute the
\* object carries. get_rag_chain and get_serp_tool return None on failure and
\* get_mysql_agent a marker-less lambda; both are still appended to the list.
get_tools(avail) ==
       (IF is_enabled("rag")
        THEN <<IF "rag" \in avail THEN "is_rag_tool" ELSE "NoneType">> ELSE <<>>)
    \o (IF is_enabled("sql")
        THEN <<IF "sql" \in avail THEN "is_sql_agent" ELSE "lambda">> ELSE <<>>)
    \o (IF is_enabled("search")
        THEN <<IF "search" \in avail THEN "is_search_tool" ELSE "NoneType">> ELSE <<>>)
    \o (IF is_enabled("jira") THEN get_jira_tools(avail) ELSE <<>>)

\* hasattr(tool, marker) for some tool of the list
HasTool(tools, marker) == \E i \in DOMAIN tools : tools[i] = marker

\* a wrapper whose invoke declares the keywords test_case_node passes
GeneratorKwargs_declared ==
    {"temperature", "scenarios_per_category", "continue_previous"}

\* the keyword arguments TestCaseGenerator.invoke(self, input_text) accepts
GeneratorKwargs == {}

\* invoke_tool(test_case_gen, text, **kwargs): Python raises TypeError when a
\* keyword is passed that the method does not declare
GeneratorCallRaises(kwargs) == ~(kwargs \subseteq GeneratorKwargs)

----------------------------------------------------------------------------
(* What the external collaborators can answer *)

Queries == {"PROJ-123 status", "more login bugs"}

\* RetrievalQA answer: a dict (with or without 'result'), another object, or
\* an exception
RagResponses ==
       {[raises |-> TRUE, is_dict |-> FALSE, has_result |-> FALSE, text |-> ""]}
  \cup {[raises |-> FALSE, is_dict |-> TRUE, has_result |-> TRUE, text |-> t] :
            t \in {"KB-ANSWER", "I don't know.", " n/a ", "i don't know that"}}
  \cup {[raises |-> FALSE, is_dict |-> TRUE, has_result |-> FALSE, text |-> ""]}
  \cup {[raises |-> FALSE, is_dict |-> FALSE, has_result |-> FALSE, text |-> "plain answer"]}

\* SQL agent answer, as str(response), or an exception
SqlResponses ==
       {[raises |-> TRUE, text |-> ""]}
  \cup {[raises |-> FALSE, text |-> t] :
            t \in {" 42 rows ", "  ", "No Results.", "Error: bad SQL",
                   "I don't know", "no relevant information here",
                   "Could not find it", "Invalid Format", " could not parse "}}

\* search_with_error_handling catches its own exceptions: None or text
SerpResponses == {None, "", "WS-ANSWER"}

\* what the JIRA server does with a search: connection refused, search error,
\* no issue, or issues
JiraBackends == {"unreachable", "search_error", "empty", "issues"}

IssueText == "### PROJ-123: Login bug"

\* the test case generator: an exception, None, or scenarios
GenResponses ==
       {[raises |-> TRUE, text |-> None]}
  \cup {[raises |-> FALSE, text |-> t] : t \in {None, "Scenario: login"}}

----------------------------------------------------------------------------
(* Node results: the dict the node returns, the exception that escaped it
   (None if none), the adapters it called in order, those that returned
   normally, and -- for the JIRA node -- the configuration object after the
   node and the project key used in the JQL text search. *)

Ret(st) == [state |-> st, error |-> None, called |-> <<>>, ok |-> {},
            cfg |-> jira_config, jql |-> None]

Crash(st, exc, called, ok) ==
    [state |-> st, error |-> exc, called |-> called, ok |-> ok,
     cfg |-> jira_config, jql |-> None]

Did(st, called, ok) ==
    [state |-> st, error |-> None, called |-> called, ok |-> ok,
     cfg |-> jira_config, jql |-> None]

\* rag_node, lines 100-104: the text of the response
rag_response_text(resp) ==
    IF resp.is_dict
    THEN (IF resp.has_result THEN resp.text ELSE "")
    ELSE resp.text

RagMinLen == 5

\* a check that measures the text without stripping it
rag_rejected_untrimmed(text) ==
    Contains(text, "I don't know") \/ Len(text) < RagMinLen

\* rag_node, line 106: the answer is rejected
rag_rejected(text) ==
    Contains(text, "I don't know") \/ Len(Strip(text)) < RagMinLen

\* a rag_node that stores its answer under the database's key
rag_node_wrong_key(st, tools, resp) ==
    IF ~is_enabled("rag") \/ ~HasTool(tools, "is_rag_tool") \/ resp.raises
    THEN Ret(st)
    ELSE Did(Set(Set(st, "sql_context", rag_response_text(resp)), "found", TRUE),
             <<"rag">>, {"rag"})

rag_node(st, tools, resp) ==
    IF ~is_enabled("rag") \/ Len(tools) = 0 THEN Ret(st)
    ELSE
      LET s1 == SetDefault(SetDefault(SetDefault(SetDefault(SetDefault(st,
                    "found", FALSE),
                    "rag_context", None),
                    "sql_context", None),
                    "serp_context", None),
                    "final_answer", None)
      IN  IF ~HasTool(tools, "is_rag_tool") THEN Ret(s1)
          ELSE IF resp.raises THEN Crash(st, "AdapterError", <<"rag">>, {})
          ELSE
            LET text == rag_response_text(resp)
            IN  IF rag_rejected(text)
                THEN Did(Set(Set(s1, "rag_context", None), "found", FALSE),
                         <<"rag">>, {"rag"})
                ELSE Did(Set(Set(s1, "rag_context", text), "found", TRUE),
                         <<"rag">>, {"rag"})

SqlRejectMarkers ==
    {"error", "i don't know", "no relevant information", "could not find",
     "invalid format", "could not parse", "no results"}

\* a check that compares the markers without lower-casing the result
sql_meaningful_case_sensitive(result) ==
    /\ Len(result) > 0
    /\ \A m \in SqlRejectMarkers : ~Contains(result, m)

\* mysql_node, lines 134-143
sql_meaningful(result) ==
    /\ Len(result) > 0
    /\ \A m \in SqlRejectMarkers : ~Contains(Lower(result), m)

\* a mysql_node without the try around the agent's call
mysql_node_no_try(st, tools, resp) ==
    IF ~is_enabled("sql") \/ Len(tools) = 0 THEN Ret(st)
    ELSE IF ~HasTool(tools, "is_sql_agent") THEN Ret(st)
    ELSE IF resp.raises
         THEN Crash(st, "AdapterError", <<"sql">>, {})
    ELSE
      LET result == Strip(resp.text)
          meaningful == sql_meaningful(result)
      IN  Did(Set(Set(st, "sql_context", IF meaningful THEN result ELSE None),
                  "found", meaningful),
              <<"sql">>, {"sql"})

mysql_node(st, tools, resp) ==
    IF ~is_enabled("sql") \/ Len(tools) = 0 THEN Ret(st)
    ELSE IF ~HasTool(tools, "is_sql_agent") THEN Ret(st)
    ELSE IF resp.raises
         THEN Did(Set(Set(st, "sql_context", None), "found", FALSE), <<"sql">>, {})
    ELSE
      LET result == Strip(resp.text)
          meaningful == sql_meaningful(result)
      IN  Did(Set(Set(st, "sql_context", IF meaningful THEN result ELSE None),
                  "found", meaningful),
              <<"sql">>, {"sql"})

serp_node(st, tools, response) ==
    IF ~is_enabled("search") \/ Len(tools) = 0 THEN Ret(st)
    ELSE IF ~HasTool(tools, "is_search_tool") THEN Ret(st)
    ELSE IF Truthy(response)
         THEN Did(Set(Set(st, "serp_context", response), "found", TRUE),
                  <<"search">>, {"search"})
         ELSE Did(Set(Set(st, "serp_context", None), "found", FALSE),
                  <<"search">>, {"search"})

----------------------------------------------------------------------------
(* The JIRA tool, tools/jira_tool.py *)

IsUpper(c) == \E i \in 1..Len(UpperChars) : SubSeq(UpperChars, i, i) = c
IsLetter(c) == IsUpper(c) \/ \E i \in 1..Len(LowerChars) : SubSeq(LowerChars, i, i) = c
IsDigit(c) == c \in {"0", "1", "2", "3", "4", "5", "6", "7", "8", "9"}

\* extract_issue_keys(query) is non-empty: [A-Z]+-\d+ matches somewhere
has_issue_keys(q) ==
    \E i \in 2..(Len(q) - 1) :
        /\ SubSeq(q, i, i) = "-"
        /\ IsUpper(SubSeq(q, i - 1, i - 1))
        /\ IsDigit(SubSeq(q, i + 1, i + 1))

\* re.match(r'^[A-Za-z]+-\d+$', q)
looks_like_key(q) ==
    \E i \in 2..(Len(q) - 1) :
        /\ SubSeq(q, i, i) = "-"
        /\ \A j \in 1..(i - 1) : IsLetter(SubSeq(q, j, j))
        /\ \A j \in (i + 1)..Len(q) : IsDigit(SubSeq(q, j, j))

\* JIRATool.invoke: every exception is caught inside and becomes None.
\* The result: the returned text (or None) and the project key of the JQL
\* text search (None when the JQL names issue keys or nothing was searched).
JIRATool_invoke(query, cfg, e, backend) ==
    LET chk == is_configured(cfg, e)
        q   == Strip(query)
        jql == IF has_issue_keys(q) \/ looks_like_key(q)
               THEN None ELSE chk.cfg.project_key
    IN  IF ~chk.ok THEN [text |-> None, cfg |-> chk.cfg, jql |-> None]
        ELSE IF backend = "unreachable"
             THEN [text |-> None, cfg |-> chk.cfg, jql |-> None]
        ELSE IF backend \in {"search_error", "empty"}
             THEN [text |-> None, cfg |-> chk.cfg, jql |-> jql]
        ELSE [text |-> IssueText, cfg |-> chk.cfg, jql |-> jql]

\* The name `traceback` is not imported in langgraph_mcp_bot.py (lines 1-15):
\* the handler of jira_node (line 235) raises NameError when it runs.
JiraHandlerError == "NameError"

\* jira_node, lines 199-237: the try block and its handler
jira_try(st, tools, cfg, e, backend, gen) ==
    IF ~HasTool(tools, "is_jira_tool")
    THEN [Ret(st) EXCEPT !.cfg = cfg]
    ELSE
      LET r  == JIRATool_invoke(st["input"], cfg, e, backend)
          s1 == Set(Set(st, "jira_context", r.text), "found", TRUE)
      IN  IF Truthy(r.text)
          THEN IF HasTool(tools, "is_test_case_generator")
                    /\ Truthy(Get(s1, "jira_context"))
               THEN IF GeneratorCallRaises({}) \/ gen.raises
                    THEN [Crash(st, JiraHandlerError, <<"jira", "gen">>, {"jira"})
                              EXCEPT !.cfg = r.cfg, !.jql = r.jql]
                    ELSE [Did(Set(s1, "test_cases", gen.text),
                              <<"jira", "gen">>, {"jira", "gen"})
                              EXCEPT !.cfg = r.cfg, !.jql = r.jql]
               ELSE [Did(s1, <<"jira">>, {"jira"})
                         EXCEPT !.cfg = r.cfg, !.jql = r.jql]
          ELSE [Did(Set(Set(st, "jira_context", None), "found", FALSE),
                    <<"jira">>, {"jira"})
                    EXCEPT !.cfg = r.cfg, !.jql = r.jql]

\* a jira_node that searches without asking is_configured() first
jira_node_no_config_check(st, tools, cfg, e, backend, gen) ==
    IF ~is_enabled("jira") \/ Len(tools) = 0 THEN Ret(st)
    ELSE jira_try(st, tools, cfg, e, backend, gen)

jira_node(st, tools, cfg, e, backend, gen) ==
    IF ~is_enabled("jira") \/ Len(tools) = 0 THEN Ret(st)
    ELSE
      \* lines 190 and 193 both call is_configured(), which reloads
      LET chk == is_configured(is_configured(cfg, e).cfg, e)
      IN  IF ~chk.ok
          THEN [Ret(Set(Set(st, "jira_context", None), "found", FALSE))
                    EXCEPT !.cfg = chk.cfg]
          ELSE jira_try(st, tools, chk.cfg, e, backend, gen)

\* test_case_node, lines 258-261
continue_previous(query) ==
    \E x \in {"more", "additional", "continue", "generate more"} :
        Contains(Lower(query), x)

\* d.get(k, default)
GetOr(d, k, default) == IF k \in DOMAIN d THEN d[k] ELSE default

\* test_case_node, lines 263-269: the arguments of the generator call
test_case_node_args(st) ==
    [input_text |-> st["jira_context"],
     temperature |-> GetOr(st, "llm_temperature", "0.7"),
     scenarios_per_category |-> GetOr(st, "scenarios_per_category", 10),
     continue_previous |-> continue_previous(st["input"])]

\* the keywords test_case_node passes to the generator, lines 263-269
TestCaseNodeKwargs == {"temperature", "scenarios_per_category", "continue_previous"}

test_case_node(st, tools, gen) ==
    IF ~is_enabled("jira") \/ Len(tools) = 0 THEN Ret(st)
    ELSE IF ~HasTool(tools, "is_test_case_generator") THEN Ret(st)
    ELSE IF ~Truthy(Get(st, "jira_context")) THEN Ret(st)
    ELSE IF GeneratorCallRaises(TestCaseNodeKwargs)
         THEN Crash(st, "TypeError", <<>>, {})
    ELSE IF gen.raises
         THEN Crash(st, "AdapterError", <<"gen">>, {})
    ELSE IF Truthy(gen.text)
         THEN Did(Set(Set(st, "test_cases", gen.text), "found", TRUE),
                  <<"gen">>, {"gen"})
         ELSE Did(Set(Set(st, "test_cases", None), "found", FALSE),
                  <<"gen">>, {"gen"})

----------------------------------------------------------------------------
(* The Answer node *)

\* an aggregation that does not ask the registry
answer_sources_ungated(st) ==
       (IF Truthy(Get(st, "rag_context"))
        THEN <<[src |-> "rag",
                line |-> "From knowledge base: " \o Get(st, "rag_context")]>>
        ELSE <<>>)
    \o (IF Truthy(Get(st, "sql_context"))
        THEN <<[src |-> "sql",
                line |-> "From database: " \o Get(st, "sql_context")]>>
        ELSE <<>>)
    \o (IF Truthy(Get(st, "serp_context"))
        THEN <<[src |-> "search",
                line |-> "From web search: " \o Get(st, "serp_context")]>>
        ELSE <<>>)
    \o (IF Truthy(Get(st, "jira_context"))
        THEN <<[src |-> "jira",
                line |-> "From JIRA: " \o Get(st, "jira_context")]>>
        ELSE <<>>)
    \o (IF Truthy(Get(st, "test_cases"))
        THEN <<[src |-> "gen",
                line |-> "\nGenerated Test Cases:\n" \o Get(st, "test_cases")]>>
        ELSE <<>>)

\* an aggregation that puts the test-case block before the JIRA line
answer_sources_block_first(st) ==
       (IF is_enabled("rag") /\ Truthy(Get(st, "rag_context"))
        THEN <<[src |-> "rag",
                line |-> "From knowledge base: " \o Get(st, "rag_context")]>>
        ELSE <<>>)
    \o (IF is_enabled("sql") /\ Truthy(Get(st, "sql_context"))
        THEN <<[src |-> "sql",
                line |-> "From database: " \o Get(st, "sql_context")]>>
        ELSE <<>>)
    \o (IF is_enabled("search") /\ Truthy(Get(st, "serp_context"))
        THEN <<[src |-> "search",
                line |-> "From web search: " \o Get(st, "serp_context")]>>
        ELSE <<>>)
    \o (IF is_enabled("jira") /\ Truthy(Get(st, "test_cases"))
        THEN <<[src |-> "gen",
                line |-> "\nGenerated Test Cases:\n" \o Get(st, "test_cases")]>>
        ELSE <<>>)
    \o (IF is_enabled("jira") /\ Truthy(Get(st, "jira_context"))
        THEN <<[src |-> "jira",
                line |-> "From JIRA: " \o Get(st, "jira_context")]>>
        ELSE <<>>)

\* final_answer_node, lines 282-297: the list `sources`, each line tagged
\* with the source it comes from
answer_sources(st) ==
       (IF is_enabled("rag") /\ Truthy(Get(st, "rag_context"))
        THEN <<[src |-> "rag",
                line |-> "From knowledge base: " \o Get(st, "rag_context")]>>
        ELSE <<>>)
    \o (IF is_enabled("sql") /\ Truthy(Get(st, "sql_context"))
        THEN <<[src |-> "sql",
                line |-> "From database: " \o Get(st, "sql_context")]>>
        ELSE <<>>)
    \o (IF is_enabled("search") /\ Truthy(Get(st, "serp_context"))
        THEN <<[src |-> "search",
                line |-> "From web search: " \o Get(st, "serp_context")]>>
        ELSE <<>>)
    \o (IF is_enabled("jira") /\ Truthy(Get(st, "jira_context"))
        THEN <<[src |-> "jira",
                line |-> "From JIRA: " \o Get(st, "jira_context")]>>
        ELSE <<>>)
    \o (IF is_enabled("jira") /\ Truthy(Get(st, "test_cases"))
        THEN <<[src |-> "gen",
                line |-> "\nGenerated Test Cases:\n" \o Get(st, "test_cases")]>>
        ELSE <<>>)

\* an aggregation without the sentinel
answer_text_no_sentinel(srcs) ==
    IF Len(srcs) > 0
    THEN Join([i \in DOMAIN srcs |-> srcs[i].line], "\n\n")
    ELSE None

\* an aggregation that joins the lines with a single newline
answer_text_single_newline(srcs) ==
    IF Len(srcs) > 0
    THEN Join([i \in DOMAIN srcs |-> srcs[i].line], "\n")
    ELSE Sentinel

\* final_answer_node, lines 299-303
answer_text(srcs) ==
    IF Len(srcs) > 0
    THEN Join([i \in DOMAIN srcs |-> srcs[i].line], "\n\n")
    ELSE Sentinel

\* a label chosen from the stored fields without asking the registry
module_type_ungated(st) ==
    IF Truthy(Get(st, "rag_context")) THEN "rag"
    ELSE IF Truthy(Get(st, "sql_context")) THEN "sql"
    ELSE IF Truthy(Get(st, "serp_context")) THEN "search"
    ELSE IF Truthy(Get(st, "jira_context")) THEN "jira"
    ELSE "unknown"

\* final_answer_node, lines 313-322
module_type(st) ==
    IF is_enabled("rag") /\ Truthy(Get(st, "rag_context")) THEN "rag"
    ELSE IF is_enabled("sql") /\ Truthy(Get(st, "sql_context")) THEN "sql"
    ELSE IF is_enabled("search") /\ Truthy(Get(st, "serp_context")) THEN "search"
    ELSE IF is_enabled("jira") /\ Truthy(Get(st, "jira_context")) THEN "jira"
    ELSE "unknown"

\* final_answer_node: the returned dict, the list `sources`, the records
\* written and the exception that escapes when the write fails (there is no
\* try around makedirs/open/write)
final_answer_node(st, writeOK) ==
    LET srcs == answer_sources(Set(st, "final_answer", ""))
        ans  == answer_text(srcs)
        s1   == Set(st, "final_answer", ans)
    IN  IF Truthy(ans) /\ ~writeOK
        THEN [state |-> s1, sources |-> srcs, files |-> <<>>, error |-> "OSError"]
        ELSE [state |-> s1, sources |-> srcs,
              files |-> IF Truthy(ans)
                        THEN <<[module_type |-> module_type(s1),
                                question |-> s1["input"],
                                answer |-> ans]>>
                        ELSE <<>>,
              error |-> None]

----------------------------------------------------------------------------
(* Routing *)

\* a router that asks for the database before the knowledge base
get_next_node_sql_first(st) ==
    IF is_enabled("sql") THEN "MySQL"
    ELSE IF is_enabled("rag") THEN "RAG"
    ELSE IF is_enabled("search") THEN "WebSearch"
    ELSE IF is_enabled("jira") THEN "JIRA"
    ELSE "Answer"

\* a router that falls through to the first source node
get_next_node_default_rag(st) ==
    IF is_enabled("rag") THEN "RAG"
    ELSE IF is_enabled("sql") THEN "MySQL"
    ELSE IF is_enabled("search") THEN "WebSearch"
    ELSE IF is_enabled("jira") THEN "JIRA"
    ELSE "RAG"

\* a router that uses the flags as they were when the module was imported,
\* none enabled
get_next_node_at_import(st) == "Answer"

\* get_next_node: state["current_node"] is no channel of ChatState, so the
\* router always sees the default "entry"
get_next_node(st) ==
    IF is_enabled("rag") THEN "RAG"
    ELSE IF is_enabled("sql") THEN "MySQL"
    ELSE IF is_enabled("search") THEN "WebSearch"
    ELSE IF is_enabled("jira") THEN "JIRA"
    ELSE "Answer"

\* has_jira_results
has_jira_results(st) == Truthy(Get(st, "jira_context"))

\* a JIRA edge that never goes to TestCases
jira_edge_always_answer(st) == "Answer"

\* the conditional edge out of JIRA, lines 403-407
jira_edge(st) == IF has_jira_results(st) THEN "TestCases" ELSE "Answer"

\* edges that chain the source nodes instead of going to Answer
plain_edge_chain(node) ==
    IF node = "RAG" THEN "MySQL"
    ELSE IF node = "MySQL" THEN "WebSearch"
    ELSE IF node = "WebSearch" THEN "JIRA"
    ELSE "Answer"

\* an edge from the knowledge-base node on to the web search node
plain_edge_rag_to_web(node) == IF node = "RAG" THEN "WebSearch" ELSE "Answer"

\* graph.add_edge(node, "Answer"), lines 398-400 and 408
plain_edge(node) == "Answer"

----------------------------------------------------------------------------
(* The state machine *)

Enabled == {m \in ModuleNames : modules[m]}

NoCalls == [a \in Adapters |-> 0]

Count(seq, a) == Cardinality({i \in DOMAIN seq : seq[i] = a})

Idle == pc \in {"idle", "done", "crashed"}

GraphInit ==
    /\ modules = [m \in ModuleNames |-> FALSE]
    /\ env \in EnvChoices
    /\ jira_config = env
    /\ pc = "idle"
    /\ state = <<>>
    /\ executed = <<>>
    /\ calls = NoCalls
    /\ returned = {}
    /\ error = None
    /\ touched = {}
    /\ gated = {}
    /\ sources = <<>>
    /\ files = <<>>
    /\ jqlProject = None
    /\ tool_response = None
    /\ request = <<>>
    /\ gen_kwargs = <<>>

\* app.py, the module checkboxes: module_manager.enable_module(name)
EnableModule(m) ==
    /\ modules' = enable_module(modules, m)
    /\ touched' = IF modules'[m] # modules[m] THEN touched \cup {m} ELSE touched
    /\ UNCHANGED <<env, jira_config, pc, state, executed, calls, returned,
                   error, gated, sources, files, jqlProject, request,
                   gen_kwargs, tool_response>>
    /\ UNCHANGED orchVars

\* app.py, the module checkboxes: module_manager.disable_module(name)
DisableModule(m) ==
    /\ modules' = disable_module(modules, m)
    /\ touched' = IF modules'[m] # modules[m] THEN touched \cup {m} ELSE touched
    /\ UNCHANGED <<env, jira_config, pc, state, executed, calls, returned,
                   error, gated, sources, files, jqlProject, request,
                   gen_kwargs, tool_response>>
    /\ UNCHANGED orchVars

\* app.py, "Save Configuration": .env is rewritten and the config reloaded
SaveConfiguration(c) ==
    /\ env' = c
    /\ jira_config' = is_configured(reload_config(jira_config, c), c).cfg
    /\ UNCHANGED <<modules, pc, state, executed, calls, returned, error,
                   touched, gated, sources, files, jqlProject, request,
                   gen_kwargs, tool_response>>
    /\ UNCHANGED orchVars

\* class ChatState: the channels of the graph's state
ChatStateKeys ==
    {"input", "rag_context", "sql_context", "serp_context", "jira_context",
     "test_cases", "final_answer", "found"}

\* generation options a caller of the compiled graph supplies with the query
CallerOptions ==
    [llm_temperature |-> "0.2", scenarios_per_category |-> 3,
     continue_previous |-> FALSE]

\* the request starts: app.invoke(req); only the keys of ChatState reach the
\* graph's state
StartRequest(req) ==
    /\ pc' = "entry"
    /\ request' = req
    /\ gen_kwargs' = <<>>
    /\ state' = [k \in DOMAIN req \cap ChatStateKeys |-> req[k]]
    /\ executed' = <<>>
    /\ calls' = NoCalls
    /\ returned' = {}
    /\ error' = None
    /\ touched' = {}
    /\ gated' = {}
    /\ sources' = <<>>
    /\ files' = <<>>
    /\ jqlProject' = None
    /\ tool_response' = None

\* app.py, the RAG, SQL and web search buttons
Invoke(query) ==
    /\ Idle
    /\ StartRequest("input" :> query)
    /\ UNCHANGED <<modules, env, jira_config>>
    /\ UNCHANGED orchVars

\* a caller of the compiled graph that passes generation options:
\* app.invoke({"input": query, "llm_temperature": ..., ...})
InvokeWithOptions(query) ==
    /\ Idle
    /\ StartRequest(("input" :> query) @@ CallerOptions)
    /\ UNCHANGED <<modules, env, jira_config>>
    /\ UNCHANGED orchVars

\* app.py, the "Search JIRA" button: the request starts only when JIRA is
\* configured, after the optional project key override
SearchJira(query, key) ==
    /\ Idle
    /\ is_enabled("jira")
    /\ LET chk == is_configured(jira_config, env)
       IN  /\ chk.ok
           /\ jira_config' = IF Truthy(key) THEN set_project_key(chk.cfg, key)
                             ELSE chk.cfg
    /\ StartRequest("input" :> query)
    /\ UNCHANGED <<modules, env>>
    /\ UNCHANGED orchVars

\* entry_node and the conditional edge out of it
Entry ==
    /\ pc = "entry"
    /\ pc' = get_next_node(state)
    /\ executed' = Append(executed, "entry")
    /\ UNCHANGED <<modules, env, jira_config, state, calls, returned, error,
                   touched, gated, sources, files, jqlProject, request,
                   gen_kwargs, tool_response>>
    /\ UNCHANGED orchVars

\* what a source node's result does to the request
Apply(node, r, next) ==
    /\ executed' = Append(executed, node)
    /\ calls' = [a \in Adapters |-> calls[a] + Count(r.called, a)]
    /\ returned' = returned \cup r.ok
    /\ error' = r.error
    /\ jira_config' = r.cfg
    /\ jqlProject' = IF r.jql # None THEN r.jql ELSE jqlProject
    /\ IF r.error # None
       THEN pc' = "crashed" /\ state' = state
       ELSE pc' = next /\ state' = r.state

RAG ==
    /\ pc = "RAG"
    /\ \E avail \in SUBSET {"rag"}, resp \in RagResponses :
          LET r == rag_node(state, get_tools(avail), resp)
          IN  /\ Apply("RAG", r, plain_edge("RAG"))
              /\ tool_response' = IF "rag" \in r.ok
                                   THEN rag_response_text(resp)
                                   ELSE tool_response
    /\ gated' = IF is_enabled("rag") THEN gated ELSE gated \cup {"rag"}
    /\ UNCHANGED <<modules, env, touched, sources, files, request, gen_kwargs>>
    /\ UNCHANGED orchVars

MySQL ==
    /\ pc = "MySQL"
    /\ \E avail \in SUBSET {"sql"}, resp \in SqlResponses :
          LET r == mysql_node(state, get_tools(avail), resp)
          IN  /\ Apply("MySQL", r, plain_edge("MySQL"))
              /\ tool_response' = IF "sql" \in r.ok THEN resp.text ELSE tool_response
    /\ gated' = IF is_enabled("sql") THEN gated ELSE gated \cup {"sql"}
    /\ UNCHANGED <<modules, env, touched, sources, files, request, gen_kwargs>>
    /\ UNCHANGED orchVars

WebSearch ==
    /\ pc = "WebSearch"
    /\ \E avail \in SUBSET {"search"}, resp \in SerpResponses :
          LET r == serp_node(state, get_tools(avail), resp)
          IN  /\ Apply("WebSearch", r, plain_edge("WebSearch"))
              /\ tool_response' = IF "search" \in r.ok THEN resp ELSE tool_response
    /\ gated' = IF is_enabled("search") THEN gated ELSE gated \cup {"search"}
    /\ UNCHANGED <<modules, env, touched, sources, files, request, gen_kwargs>>
    /\ UNCHANGED orchVars

JIRA ==
    /\ pc = "JIRA"
    /\ \E avail \in SUBSET {"jira", "gen"}, backend \in JiraBackends, gen \in GenResponses :
          LET r == jira_node(state, get_tools(avail), jira_config, env, backend, gen)
          IN  Apply("JIRA", r, jira_edge(r.state))
    /\ gated' = IF is_enabled("jira") /\ is_configured(jira_config, env).ok
                THEN gated ELSE gated \cup {"jira"}
    /\ UNCHANGED <<modules, env, touched, sources, files, request,
                   gen_kwargs, tool_response>>
    /\ UNCHANGED orchVars

TestCases ==
    /\ pc = "TestCases"
    /\ \E avail \in SUBSET {"jira", "gen"}, gen \in GenResponses :
          LET r == test_case_node(state, get_tools(avail), gen)
          IN  /\ Apply("TestCases", r, plain_edge("TestCases"))
              /\ gen_kwargs' = IF r.error = "TypeError" \/ r.called # <<>>
                                THEN <<test_case_node_args(state)>>
                                ELSE gen_kwargs
    /\ UNCHANGED <<modules, env, touched, gated, sources, files, request,
                   tool_response>>
    /\ UNCHANGED orchVars

Answer ==
    /\ pc = "Answer"
    /\ \E writeOK \in BOOLEAN :
          LET r == final_answer_node(state, writeOK)
          IN  /\ executed' = Append(executed, "Answer")
              /\ sources' = r.sources
              /\ files' = r.files
              /\ error' = r.error
              /\ IF r.error # None
                 THEN pc' = "crashed" /\ state' = state
                 ELSE pc' = "done" /\ state' = r.state
    /\ UNCHANGED <<modules, env, jira_config, calls, returned, touched,
                   gated, jqlProject, request, gen_kwargs, tool_response>>
    /\ UNCHANGED orchVars

-----------------------------------------------------------------------------
(* main.py and module_manager.py: the SearchOrchestrator, which queries every
   enabled module in turn, and the ModuleManager it owns *)

MMNames == {"rag", "mysql", "web_search", "jira"}

MMOrder == <<"rag", "mysql", "web_search", "jira">>

\* the last second of the clock
MaxClock == 1

\* class ModuleConfig
ModuleConfig == [enabled |-> FALSE, output_file |-> ""]

\* os.path.join(output_dir, f"{module_name}_{timestamp}.txt")
OutputFile(name, t) == name \o "_" \o ToString(t) \o ".txt"

\* ModuleManager.enable_module at time t
ModuleManager_enable_module(reg, name, t) ==
    IF name \in DOMAIN reg
    THEN [reg EXCEPT ![name] = [enabled |-> TRUE,
                                output_file |-> OutputFile(name, t)]]
    ELSE reg

\* ModuleManager.disable_module
ModuleManager_disable_module(reg, name) ==
    IF name \in DOMAIN reg
    THEN [reg EXCEPT ![name].enabled = FALSE]
    ELSE reg

\* ModuleManager.is_module_enabled
is_module_enabled(reg, name) ==
    IF name \in DOMAIN reg THEN reg[name].enabled ELSE ModuleConfig.enabled

\* ModuleManager.get_output_file
get_output_file(reg, name) ==
    IF is_module_enabled(reg, name) THEN reg[name].output_file ELSE None

\* ModuleManager.write_output: the records appended, none or one
write_output(reg, name, content) ==
    IF ~is_module_enabled(reg, name) THEN <<>>
    ELSE IF Truthy(get_output_file(reg, name))
         THEN <<[module |-> name, file |-> get_output_file(reg, name),
                 content |-> content]>>
         ELSE <<>>

\* what the modules answer to a query: RAGModule.query, MySQLModule.execute_query
\* and JIRAModule.search_issues always return text, the web search tool
\* returns None when it finds nothing
SearchResults ==
    [rag : {"doc: login"}, mysql : {"id: 1"},
     web_search : {None, "Source: web"}, jira : {"Key: PROJ-1"}]

\* one block of search(): `if is_module_enabled(name): result = ...;
\* if result: write_output(name, result)`
QueryModule(reg, acc, name, result) ==
    IF acc.error # None \/ ~is_module_enabled(reg, name) THEN acc
    ELSE [queried |-> Append(acc.queried, name),
          written |-> acc.written \o
                        (IF Truthy(result) THEN write_output(reg, name, result)
                                           ELSE <<>>),
          error |-> None]

\* SearchOrchestrator.search: self.web_search.run raises AttributeError when
\* get_serp_tool() returned None
search(reg, tool, res) ==
    LET a0 == [queried |-> <<>>, written |-> <<>>, error |-> None]
        a1 == QueryModule(reg, a0, "rag", res.rag)
        a2 == QueryModule(reg, a1, "mysql", res.mysql)
        a3 == IF a2.error = None /\ is_module_enabled(reg, "web_search") /\ ~tool
              THEN [a2 EXCEPT !.error = "AttributeError"]
              ELSE QueryModule(reg, a2, "web_search", res.web_search)
    IN  QueryModule(reg, a3, "jira", res.jira)

\* SearchOrchestrator.__init__: a fresh ModuleManager; get_serp_tool() gave a
\* tool or None
OrchStart(tool) ==
    /\ mm = [n \in MMNames |-> ModuleConfig]
    /\ now = 0
    /\ web_search = tool
    /\ queried = <<>>
    /\ written = <<>>
    /\ search_error = None
    /\ files_since = [n \in MMNames |-> {}]

Init == GraphInit /\ OrchStart(TRUE)

OrchInit == GraphInit /\ env = EmptyConfig /\ \E tool \in BOOLEAN : OrchStart(tool)

\* search_app.py, a ticked module checkbox, and main(): enable_module(name)
OrchEnable(name) ==
    /\ mm' = ModuleManager_enable_module(mm, name, now)
    /\ UNCHANGED <<now, web_search, queried, written, search_error, files_since>>
    /\ UNCHANGED graphVars

\* search_app.py, an unticked module checkbox: disable_module(name)
OrchDisable(name) ==
    /\ mm' = ModuleManager_disable_module(mm, name)
    /\ files_since' = [files_since EXCEPT ![name] = {}]
    /\ UNCHANGED <<now, web_search, queried, written, search_error>>
    /\ UNCHANGED graphVars

\* a second passes
Tick ==
    /\ now < MaxClock
    /\ now' = now + 1
    /\ UNCHANGED <<mm, web_search, queried, written, search_error, files_since>>
    /\ UNCHANGED graphVars

\* orchestrator.search(query)
Search(res) ==
    /\ LET r == search(mm, web_search, res)
       IN  /\ queried' = r.queried
           /\ written' = r.written
           /\ search_error' = r.error
           /\ files_since' =
                 [n \in MMNames |->
                     files_since[n] \cup
                        {r.written[i].file : i \in {j \in DOMAIN r.written :
                                                      r.written[j].module = n}}]
    /\ UNCHANGED <<mm, now, web_search>>
    /\ UNCHANGED graphVars

OrchNext ==
    \/ \E n \in MMNames : OrchEnable(n)
    \/ \E n \in MMNames : OrchDisable(n)
    \/ Tick
    \/ \E res \in SearchResults : Search(res)

OrchSpec == OrchInit /\ [][OrchNext]_vars

Step == Entry \/ RAG \/ MySQL \/ WebSearch \/ JIRA \/ TestCases \/ Answer

Next ==
    \/ \E m \in ModuleNames : EnableModule(m)
    \/ \E m \in ModuleNames : DisableModule(m)
    \/ \E c \in EnvChoices : SaveConfiguration(c)
    \/ \E q \in Queries : Invoke(q)
    \/ \E q \in Queries : InvokeWithOptions(q)
    \/ \E q \in Queries, key \in {"", "OVR"} : SearchJira(q, key)
    \/ Entry
    \/ RAG
    \/ MySQL
    \/ WebSearch
    \/ JIRA
    \/ TestCases
    \/ Answer

Spec == Init /\ [][Next]_vars

\* the graph runs a started request node after node
FairSpec == Spec /\ WF_vars(Step)

----------------------------------------------------------------------------
(* Properties *)

ResultField ==
    [rag |-> "rag_context", sql |-> "sql_context",
     search |-> "serp_context", jira |-> "jira_context"]

SourceNode == [rag |-> "RAG", sql |-> "MySQL", search |-> "WebSearch", jira |-> "JIRA"]

SourceLabel ==
    [rag |-> "From knowledge base: ", sql |-> "From database: ",
     search |-> "From web search: ", jira |-> "From JIRA: "]

Priority == <<"rag", "sql", "search", "jira">>

\* the module's flag has been FALSE (TRUE) since the request started
DisabledThroughout(m) == ~modules[m] /\ m \notin touched
EnabledThroughout(m) == modules[m] /\ m \notin touched

Ran(node) == \E i \in DOMAIN executed : executed[i] = node

\* C1 (fail-soft): a finished request in which no adapter call returned
\* normally, and whose output record could be written, has returned with
\* final_answer equal to the sentinel; no exception has escaped the graph.
C1_FailSoft ==
    (pc \in {"done", "crashed"} /\ returned = {} /\ error # "OSError")
        => (pc = "done" /\ Get(state, "final_answer") = Sentinel)

\* C2 (gating): when run has returned, the result field of every module that
\* was disabled during the whole request is null.
C2_Gating ==
    pc = "done" =>
        \A m \in ModuleNames :
            DisabledThroughout(m) => Get(state, ResultField[m]) = None

\* C2: a request has returned with a result of one source while another
\* module was disabled throughout.
C2_Witness ==
    /\ pc = "done"
    /\ EnabledThroughout("rag")
    /\ Truthy(Get(state, "rag_context"))
    /\ DisabledThroughout("sql")
    /\ DisabledThroughout("jira")

\* C3 (empty case): with all four modules disabled during the whole request,
\* only entry and Answer run, and the returned state has the sentinel as
\* final_answer and no result field (test_cases included) set.
C3_EmptyCase ==
    (pc = "done" /\ \A m \in ModuleNames : DisabledThroughout(m)) =>
        /\ executed = <<"entry", "Answer">>
        /\ Get(state, "final_answer") = Sentinel
        /\ \A f \in {"rag_context", "sql_context", "serp_context",
                     "jira_context", "test_cases"} : Get(state, f) = None
        /\ \A a \in Adapters : calls[a] = 0

\* C3: a request has returned with every module disabled throughout.
C3_Witness ==
    /\ pc = "done"
    /\ \A m \in ModuleNames : DisabledThroughout(m)
    /\ "final_answer" \in DOMAIN state

\* C4 (conditional routing): the JIRA node is followed by TestCases exactly
\* when it left jira_context non-null and by Answer otherwise, and TestCases
\* is never the next node while jira_context is null.
C4_ConditionalRouting ==
    [][ /\ (pc = "JIRA" /\ pc' \notin {"JIRA", "crashed"}) =>
              /\ pc' \in {"TestCases", "Answer"}
              /\ pc' = "TestCases" <=> Get(state', "jira_context") # None
        /\ (pc' = "TestCases" /\ pc # "TestCases") =>
              (pc = "JIRA" /\ Get(state', "jira_context") # None)
      ]_vars

\* C4: the JIRA node has found issues and the graph is about to run TestCases.
C4_Witness ==
    /\ pc = "TestCases"
    /\ executed = <<"entry", "JIRA">>
    /\ Get(state, "jira_context") = IssueText

\* C5 (issue-tracker gating): when the JIRA node runs with the module enabled
\* and the tracker not configured, the JIRA tool is not invoked (its call
\* count of the request stays 0), jira_context is null afterwards and the
\* next node is Answer.
C5_NotConfigured ==
    [][ (/\ pc = "JIRA"
         /\ pc' # "JIRA"
         /\ is_enabled("jira")
         /\ ~is_configured(jira_config, env).ok) =>
            /\ calls' = calls
            /\ calls'["jira"] = 0
            /\ Get(state', "jira_context") = None
            /\ pc' = "Answer"
      ]_vars

\* C5: the JIRA node has run, enabled and unconfigured: it stored the null
\* jira_context of its "not configured" branch.
C5_Witness ==
    /\ Ran("JIRA")
    /\ "jira" \in gated
    /\ "jira_context" \in DOMAIN state
    /\ calls["jira"] = 0

\* the registry of the multi-source scenario: knowledge base and web search
\* enabled, database and issue tracker disabled, during the whole request
KbAndWebOnly ==
    /\ EnabledThroughout("rag")
    /\ EnabledThroughout("search")
    /\ DisabledThroughout("sql")
    /\ DisabledThroughout("jira")

\* C6 as claimed (multi-source run): with knowledge base and web search
\* enabled and the knowledge base answering KB-ANSWER, run returns the merged
\* answer of both sources.
C6_MergeAll ==
    (pc = "done" /\ KbAndWebOnly /\ Get(state, "rag_context") = "KB-ANSWER") =>
        Get(state, "final_answer") =
            "From knowledge base: KB-ANSWER\n\nFrom web search: WS-ANSWER"

\* C6 as amended: in that scenario only the knowledge-base node runs between
\* entry and Answer, the web search tool is not invoked, serp_context stays
\* null and final_answer is the knowledge-base line alone.
C6_FirstSourceOnly ==
    (pc = "done" /\ KbAndWebOnly /\ Get(state, "rag_context") = "KB-ANSWER") =>
        /\ executed = <<"entry", "RAG", "Answer">>
        /\ calls["search"] = 0
        /\ Get(state, "serp_context") = None
        /\ Get(state, "final_answer") = "From knowledge base: KB-ANSWER"

\* C6: the scenario has run to the end.
C6_Witness ==
    /\ pc = "done"
    /\ KbAndWebOnly
    /\ Get(state, "rag_context") = "KB-ANSWER"
    /\ calls["rag"] = 1

\* C7: final_answer is null (or absent) in every state in which the Answer
\* node has not completed, whatever nodes ran before, and non-null once it
\* has.
C7_FinalAnswerOnlyByAnswer ==
    /\ pc # "done" => Get(state, "final_answer") = None
    /\ pc = "done" => Get(state, "final_answer") # None

\* C7: the knowledge-base node has stored a result and created the
\* final_answer key, and Answer has not run yet.
C7_Witness ==
    /\ pc = "Answer"
    /\ Ran("RAG")
    /\ Truthy(Get(state, "rag_context"))
    /\ "final_answer" \in DOMAIN state

\* C8 (termination): a request in which no adapter raised never stops before
\* the Answer node has run.
C8_Termination ==
    pc = "crashed" =>
        (error \in {"AdapterError", JiraHandlerError} \/ Ran("Answer"))

\* C9 (entry routing): the node after entry is the node of the first module,
\* in the order rag, sql, search, jira, that is enabled when entry runs, and
\* Answer exactly when no module is enabled.
C9_EntryRouting ==
    [][ (pc = "entry" /\ pc' # "entry") =>
            /\ pc' = "Answer" <=> (\A m \in ModuleNames : ~modules[m])
            /\ \A i \in DOMAIN Priority :
                  pc' = SourceNode[Priority[i]] <=>
                      /\ modules[Priority[i]]
                      /\ \A j \in 1..(i - 1) : ~modules[Priority[j]]
      ]_vars

\* C9: entry has routed to web search although the issue tracker is enabled
\* too, the two modules before it being disabled.
C9_Witness ==
    /\ pc = "WebSearch"
    /\ executed = <<"entry">>
    /\ touched = {}
    /\ ~modules["rag"] /\ ~modules["sql"] /\ modules["search"] /\ modules["jira"]

\* C10: whatever enable, disable and configuration calls interleave with the
\* nodes, when Answer runs a source that is disabled at that moment, or whose
\* own node ran while it was disabled or unconfigured, has no line in
\* `sources` (for the issue tracker: no test-case block either), its label
\* does not occur in final_answer, and it is not the module type of the
\* record written.
C10_NoContributionWhenGated ==
    [][ (pc = "Answer" /\ pc' # "Answer") =>
            \A m \in ModuleNames :
                (~modules[m] \/ m \in gated) =>
                    /\ \A i \in DOMAIN sources' : sources'[i].src # m
                    /\ m = "jira" => \A i \in DOMAIN sources' : sources'[i].src # "gen"
                    /\ \A i \in DOMAIN files' : files'[i].module_type # m
                    /\ pc' = "done" =>
                          ~Contains(Get(state', "final_answer"), SourceLabel[m])
      ]_vars

\* C10: a request has returned the sentinel although the knowledge base had
\* stored a result: its module was disabled before Answer ran.
C10_Witness ==
    /\ pc = "done"
    /\ Truthy(Get(state, "rag_context"))
    /\ sources = <<>>
    /\ Get(state, "final_answer") = Sentinel
    /\ Len(files) = 1 /\ files[1].module_type = "unknown"

\* the source contributes when Answer runs: enabled, result field non-null
Contributes(m) == modules[m] /\ Get(state, ResultField[m]) # None

\* the contributions the aggregation is to list, in priority order, and the
\* scenario block after them
ExpectedLines ==
    LET sel == SelectSeq(Priority, Contributes)
    IN  [i \in DOMAIN sel |-> SourceLabel[sel[i]] \o Get(state, ResultField[sel[i]])]
        \o (IF Contributes("jira") /\ Get(state, "test_cases") # None
            THEN <<"\nGenerated Test Cases:\n" \o Get(state, "test_cases")>>
            ELSE <<>>)

\* C11 (aggregation): when Answer runs and returns, final_answer is the
\* labelled lines of exactly the enabled sources with a non-null result, in
\* the order rag, sql, search, jira (then the scenario block), joined by a
\* blank line, and it is the sentinel exactly when there is no such line.
C11_Aggregation ==
    [][ (pc = "Answer" /\ pc' = "done") =>
            /\ [i \in DOMAIN sources' |-> sources'[i].line] = ExpectedLines
            /\ Len(ExpectedLines) > 0 =>
                  Get(state', "final_answer") = Join(ExpectedLines, "\n\n")
            /\ Get(state', "final_answer") = Sentinel <=> Len(ExpectedLines) = 0
      ]_vars

\* C11: Answer has merged the issue-tracker line and the scenario block.
C11_Witness ==
    /\ pc = "done"
    /\ Len(sources) = 2
    /\ Get(state, "final_answer") =
          "From JIRA: " \o IssueText \o "\n\n"
              \o "\nGenerated Test Cases:\n" \o "Scenario: login"

\* C12: the test-case block is in `sources` only directly after the JIRA
\* line and with test_cases non-null, and in every state test_cases non-null
\* implies jira_context non-null.
C12_ScenarioBlock ==
    /\ Get(state, "test_cases") # None => Get(state, "jira_context") # None
    /\ \A i \in DOMAIN sources :
          sources[i].src = "gen" =>
              /\ i > 1
              /\ sources[i - 1].src = "jira"
              /\ Get(state, "test_cases") # None
              /\ sources[i].line =
                    "\nGenerated Test Cases:\n" \o Get(state, "test_cases")

\* C12: the JIRA node has stored issues and test cases, and Answer has listed
\* the issue line followed by the block.
C12_Witness ==
    /\ pc = "done"
    /\ Ran("JIRA")
    /\ calls["gen"] = 1
    /\ Len(sources) = 2
    /\ sources[1].src = "jira"
    /\ sources[2].src = "gen"

\* C13 (persistence failure isolation): no request fails in Answer; once
\* Answer has run, the request has returned with final_answer set, whether or
\* not the output record could be written.
C13_PersistenceIsolation ==
    Ran("Answer") => (pc = "done" /\ Get(state, "final_answer") # None)

ExpectedLabel ==
    LET sel == SelectSeq(Priority, Contributes)
    IN  IF Len(sel) > 0 THEN sel[1] ELSE "unknown"

\* C14 (persistence label): when Answer returns, the record it wrote carries
\* the name of the first source, in the order rag, sql, search, jira, that is
\* enabled with a non-null result, and "unknown" exactly when final_answer is
\* the sentinel.
C14_PersistedLabel ==
    [][ (pc = "Answer" /\ pc' = "done") =>
            /\ Len(files') = 1
            /\ files'[1].module_type = ExpectedLabel
            /\ files'[1].answer = Get(state', "final_answer")
            /\ files'[1].module_type = "unknown"
                  <=> Get(state', "final_answer") = Sentinel
      ]_vars

\* C14: a record labelled with the database source has been written.
C14_Witness ==
    /\ pc = "done"
    /\ Len(files) = 1
    /\ files[1].module_type = "sql"
    /\ Get(state, "sql_context") = "42 rows"

UnknownModule == "reports"

ResultFields ==
    {"rag_context", "sql_context", "serp_context", "jira_context", "test_cases"}

SomeResult(st) == \E f \in ResultFields : Get(st, f) # None

FoundTrue(st) == "found" \in DOMAIN st /\ st["found"] = TRUE

\* C16 (found monotone): in every state in which some result field is
\* non-null found is true, and no step of a running request takes found from
\* true to anything else.
C16_FoundMonotone ==
    [][ /\ SomeResult(state') => FoundTrue(state')
        /\ (~Idle /\ FoundTrue(state)) => FoundTrue(state')
      ]_vars

\* C16: the request is at Answer after JIRA and TestCases, with issues stored
\* and found true.
C16_Witness ==
    /\ pc = "Answer"
    /\ Ran("JIRA")
    /\ Ran("TestCases")
    /\ Get(state, "jira_context") # None
    /\ FoundTrue(state)

\* the stage each result field belongs to
Owner ==
    [rag_context |-> "RAG", sql_context |-> "MySQL", serp_context |-> "WebSearch",
     jira_context |-> "JIRA", test_cases |-> "TestCases"]

\* C17 (single writer): a step gives a result field a new value only when it
\* is a step of the stage the field belongs to, and only when the field has
\* had no value in this request.
C17_SingleWriter ==
    [][ \A f \in ResultFields :
            (~Idle /\ Get(state', f) # Get(state, f)) =>
                /\ pc = Owner[f]
                /\ Get(state, f) = None
      ]_vars

\* the step is the source stage of m, run while m is disabled or while no
\* tool with its marker is available: the stage returns without calling its
\* adapter (for the issue tracker, not because it is unconfigured)
SkippedStep(m) ==
    /\ pc = SourceNode[m]
    /\ pc' # "crashed"
    /\ calls' = calls
    /\ m = "jira" => (~modules["jira"] \/ is_configured(jira_config, env).ok)

C19_DatabaseValidity ==
    [][ (pc = "MySQL" /\ calls'["sql"] > calls["sql"] /\ "sql" \in returned') =>
            LET text == Strip(tool_response')
                rejected ==
                    \/ Len(text) = 0
                    \/ \E m \in {"error", "i don't know", "no relevant information",
                                 "could not find", "invalid format",
                                 "could not parse", "no results"} :
                          Contains(Lower(text), m)
            IN  Get(state', "sql_context") = IF rejected THEN None ELSE text
      ]_vars

\* C19: the agent's padded answer has been stored trimmed.
C19_Witness ==
    /\ Ran("MySQL")
    /\ tool_response = " 42 rows "
    /\ Get(state, "sql_context") = "42 rows"

\* C20 (knowledge-base validity): when the RAG tool has returned text to
\* rag_node, rag_context is null if the text contains "I don't know", spelled
\* exactly so, or if its trimmed length is below 5, and the text as returned
\* otherwise.
C20_KnowledgeBaseValidity ==
    [][ (pc = "RAG" /\ calls'["rag"] > calls["rag"] /\ "rag" \in returned') =>
            LET text == tool_response'
                rejected == \/ Contains(text, "I don't know")
                            \/ Len(Strip(text)) < 5
            IN  Get(state', "rag_context") = IF rejected THEN None ELSE text
      ]_vars

\* C20: an answer of five characters, three of them after trimming, has been
\* rejected.
C20_Witness ==
    /\ pc = "Answer"
    /\ Ran("RAG")
    /\ tool_response = " n/a "
    /\ "rag_context" \in DOMAIN state
    /\ state["rag_context"] = None

\* C21 (database failure isolation): when the SQL agent's call raises inside
\* mysql_node, no exception leaves the node, sql_context is null afterwards
\* and the next node is Answer.
C21_DatabaseIsolation ==
    [][ (pc = "MySQL" /\ calls'["sql"] > calls["sql"] /\ "sql" \notin returned') =>
            /\ error' = None
            /\ pc' = "Answer"
            /\ Get(state', "sql_context") = None
      ]_vars

\* C21: the agent raised, and the request is at Answer with no database
\* result.
C21_Witness ==
    /\ pc = "Answer"
    /\ Ran("MySQL")
    /\ calls["sql"] = 1
    /\ "sql" \notin returned
    /\ "sql_context" \in DOMAIN state
    /\ state["sql_context"] = None

\* C22 (issue-tracker failure isolation): when a call made by jira_node, to
\* the JIRA tool or to the test case generator, raises, no exception leaves
\* the node, jira_context is null afterwards, found is as it was and the
\* next node is Answer.
C22_IssueTrackerIsolation ==
    [][ ( /\ pc = "JIRA"
          /\ \E a \in {"jira", "gen"} : calls'[a] > calls[a] /\ a \notin returned' )
        =>  /\ error' = None
            /\ pc' = "Answer"
            /\ Get(state', "jira_context") = None
            /\ FoundTrue(state') <=> FoundTrue(state)
      ]_vars

\* the value the caller supplied for an option, or the option's default
CallerOption(k, default) == GetOr(request, k, default)

\* C23 (options pass-through): the generator call of test_case_node carries
\* jira_context and the caller's temperature, scenarios_per_category and
\* continue_previous (the defaults 0.7, 10 and false when the caller gave
\* none), whatever the query text.
C23_OptionsPassThrough ==
    Len(gen_kwargs) > 0 =>
        gen_kwargs[1] =
            [input_text |-> Get(state, "jira_context"),
             temperature |-> CallerOption("llm_temperature", "0.7"),
             scenarios_per_category |-> CallerOption("scenarios_per_category", 10),
             continue_previous |-> CallerOption("continue_previous", FALSE)]

SourcesRun == {m \in ModuleNames : Ran(SourceNode[m])}

\* C24 (at most one source stage): when the RAG, MySQL or WebSearch node
\* returns, the next node is Answer whatever it stored, and in every request
\* at most one of the four source nodes has run.
C24_AtMostOneSource ==
    [][ /\ (pc \in {"RAG", "MySQL", "WebSearch"} /\ pc' # pc /\ pc' # "crashed")
              => pc' = "Answer"
        /\ Cardinality(SourcesRun)' <= 1
      ]_vars

\* C24: web search, enabled together with JIRA, stored nothing and the
\* request is at Answer with no other source having run.
C24_Witness ==
    /\ pc = "Answer"
    /\ executed = <<"entry", "WebSearch">>
    /\ EnabledThroughout("search")
    /\ EnabledThroughout("jira")
    /\ calls["search"] = 1
    /\ ~SomeResult(state)

EnabledInRegistry(n) == mm[n].enabled

SearchStep == \E res \in SearchResults : Search(res)

\* C25 (search queries every enabled module): a call of search() queries
\* exactly the modules enabled in the ModuleManager, each once, in the order
\* rag, mysql, web_search, jira, returns normally, and appends a record only
\* for an enabled module with a non-empty result.
C25_SearchAllEnabled ==
    [][ SearchStep =>
            /\ search_error' = None
            /\ queried' = SelectSeq(MMOrder, EnabledInRegistry)
            /\ \A i \in DOMAIN written' :
                  /\ mm[written'[i].module].enabled
                  /\ Truthy(written'[i].content)
      ]_vars

\* C26 (missing web search tool): when get_serp_tool() gave no tool and
\* web_search is enabled, search() still returns normally, leaves out only
\* web_search and queries jira when it is enabled.
C26_MissingWebTool ==
    [][ (SearchStep /\ ~web_search /\ mm["web_search"].enabled) =>
            /\ search_error' = None
            /\ queried' = SelectSeq(MMOrder,
                             LAMBDA n : mm[n].enabled /\ n # "web_search")
      ]_vars

\* C27 (registry freshness): entry routes by the flags the registry holds
\* when entry runs, a source node whose module is disabled when the node runs
\* calls no adapter and stores nothing, and Answer lists only sources enabled
\* when Answer runs -- whatever the flags were at process start or in an
\* earlier request.
C27_RegistryFreshness ==
    [][ /\ (pc = "entry" /\ pc' # pc) =>
              pc' \in {SourceNode[m] : m \in Enabled}
                        \cup (IF Enabled = {} THEN {"Answer"} ELSE {})
        /\ \A m \in ModuleNames :
              (pc = SourceNode[m] /\ pc' # pc /\ ~modules[m]) =>
                  (calls' = calls /\ state' = state)
        /\ (pc = "Answer" /\ pc' = "done") =>
              \A i \in DOMAIN sources' :
                  sources'[i].src \in Enabled
                        \cup (IF modules["jira"] THEN {"gen"} ELSE {})
      ]_vars

\* C27: an earlier request was started with the Search JIRA button and a
\* project key override, so the issue tracker was enabled then; every module
\* has been disabled since before this request started, and entry has
\* routed it straight to Answer.
C27_Witness ==
    /\ pc = "Answer"
    /\ executed = <<"entry">>
    /\ jira_config.project_key = "OVR"
    /\ \A m \in ModuleNames : DisabledThroughout(m)

\* the generator calls made in this request by test_case_node and by
\* jira_node (calls counts the calls that reached the generator, from either
\* node)
GenCallsByTestCases == Len(gen_kwargs)

GenCallsByJira ==
    calls["gen"] - (IF Len(gen_kwargs) > 0 /\ error # "TypeError" THEN 1 ELSE 0)

C29_IsConfiguredPure ==
    [][ (pc = "JIRA" /\ pc' # pc) =>
            /\ jira_config' = jira_config
            /\ jqlProject' # None => jqlProject' = jira_config.project_key
      ]_vars

\* C30 (enable_module is idempotent): enabling a module that is already
\* enabled leaves the registry as it was, all the output a module writes
\* between one disable and the next goes to a single file, and
\* get_output_file returns a file exactly when the module is enabled.
C30_EnableIdempotent ==
    [][ /\ \A name \in MMNames :
              (mm[name].enabled /\ OrchEnable(name)) => mm' = mm
        /\ \A name \in MMNames : Cardinality(files_since'[name]) <= 1
        /\ \A name \in MMNames :
              (get_output_file(mm', name) # None) <=> mm'[name].enabled
      ]_vars

====
